---- MODULE Spec2Model ----
(***************************************************************************)
(* Virtual-media attach/detach state machine of the FALCON hardware class  *)
(* (vendors/ampere/falcon.py) and of its base class                        *)
(* OpenBMCIronicVirtMediaHW (vendors/openbmc_hw.py).                       *)
(*                                                                         *)
(* One top-level call runs at a time (the driver is single-threaded and    *)
(* blocking).  Every ipmitool round trip is one step: the Transport is the *)
(* environment, and its reply is chosen by the Transport stub `stub`.      *)
(***************************************************************************)
EXTENDS Integers, Sequences, FiniteSets, TLC

VARIABLES
    op,         \* the method called by the framework / test, "none" when idle
    hw,         \* class that binds get_disk_attachment_status: "FALCON" or "BASE"
    stub,       \* the Transport stub: [mode, n]
    pc,         \* position inside the running method
    idx,        \* index of the running stage in attach/detach (1 for a single primitive)
    args,       \* arguments of the running primitive: [devicetype, devicecount, enabled]
    result,     \* "none", "True", "False", "None", or the name of the raised exception
    tries,      \* the local loop counter (tries, _tries, sleep_count)
    conf,       \* _conf_device_num / _num_inst: an integer or None
    driveindex, \* loop variable of _stop_remote_redirection: an integer or Unbound
    poll,       \* instrumentation of the running primitive: [gets, sleeps, last]
    sent,       \* instrumentation: the raw commands handed to the Transport, in order
    stages,     \* instrumentation: the command categories issued, in order
    ctl,        \* registers of the controller as written by the accepted set commands
    ctl0,       \* ctl when the running call began
    failedAt,   \* index of the stage whose primitive returned failure, 0 if none
    status,     \* the last disk-attachment status read, "none" before the first
    resets,     \* number of "bmc reset cold" commands issued in this call
    infos,      \* number of "bmc info" liveness commands issued in this call
    calls,      \* number of calls made so far
    provision_state, \* task.node.provision_state during the call of a boot method
    os_net_config,   \* task.node.driver_info.get('os_net_config'): <<>> when absent
    ramdisk_params,  \* the keys of ramdisk_params / parameters
    boot_device,     \* the device given to node_set_boot_device, "none" before
    media            \* instrumentation: the media operations of the boot methods and
                     \* how each ended ("ok" or "raise"), in order

vars == <<op, hw, stub, pc, idx, args, result, tries, conf, driveindex, poll,
          sent, stages, ctl, ctl0, failedAt, status, resets, infos, calls,
          provision_state, os_net_config, ramdisk_params, boot_device, media>>

-----------------------------------------------------------------------------
(* Bounds of the model *)

\* device counts requested by a caller range over -1 .. MaxDeviceCount
MaxDeviceCount == 5
\* device counts reported by the controller range over 0 .. MaxReplyCount
MaxReplyCount == 2
\* number of calls made in a row on one controller
MaxCalls == 1
\* a scripted Transport stub first reports the target on get number 1 .. MaxScript
MaxScript == 61

(* Program constants *)

\* _tries = 40 in _set_virtual_media_device_count
SlotCountTries == 40
\* tries = 60 in _enable_virtual_media
EnableTries == 60
\* tries = 60 in _toggle_virtual_device
ToggleTries == 60
\* tries = 60 in _wait_for_mount_count
MountCountTries == 60
\* sleep_count = 10 in _wait_for_cd_mounting
CdWaitSleepCount == 10
\* sleep_count = 10 in _issue_bmc_reset
BmcInfoSleepCount == 10
\* upper limit of the accepted device count: "if not 0 <= devicecount <= 4"
MaxSlots == 4

\* The names bound at module level in falcon.py (lines 26-52).
ModuleGlobals ==
    { "RAW_CHECK_NFS_SERVICE_STATUS",
      "RAW_GET_VMEDIA_DEVICE_COUNT", "RAW_SET_VMEDIA_DEVICE_COUNT",
      "VMDEIA_DEVICE_TYPE_CD", "VMDEIA_DEVICE_TYPE_FD", "VMDEIA_DEVICE_TYPE_HD",
      "RAW_GET_VMEDIA_MOUNT_STATUS", "RAW_SET_VMEDIA_MOUNT_STATUS",
      "RAW_GET_VMEDIA_STATUS", "RAW_SET_VMEDIA_STATUS", "RAW_RESTART_VMEDIA",
      "RAW_RESTART_RIS_CD", "RAW_SET_RIS_NFS", "RAW_SET_RIS_NFS_IP",
      "RAW_SET_RIS_NFS_PATH", "RAW_SET_RIS_PROGRESS", "RAW_CLEAR_RIS_CONFIG",
      "RAW_RESTART_RIS",
      "RAW_GET_MOUNTED_IMG_COUNT", "RAW_SET_IMG_NAME", "RAW_STOP_REDIRECT" }

-----------------------------------------------------------------------------
(* The Transport stub.                                                     *)
(*   mode "scripted": every command succeeds; the n-th get of a primitive  *)
(*                    and every later one report the target value, the     *)
(*                    earlier ones a value that is not the target;         *)
(*                    n = Never: the target is never reported.             *)
(*   mode "chaos":    every reply, a transport error included, may come.   *)

Never == MaxScript + 1

Scripted(n) == [mode |-> "scripted", n |-> n]
Chaos == [mode |-> "chaos", n |-> 0]
Stubs == {Chaos} \cup {Scripted(n) : n \in (1 .. MaxScript) \cup {Never}}

\* does the next get of the running primitive report the target value?
OnTarget == poll.gets + 1 >= stub.n

\* replies to a set (or any fire-and-forget) command
SetReplies == IF stub.mode = "scripted" THEN {"ok"} ELSE {"ok", "err"}

\* A reply to a get: a transport error, or the text `out` (a sequence of characters)
Err == [err |-> TRUE, out |-> <<>>]
Out(s) == [err |-> FALSE, out |-> s]

HexDigits == <<"0", "1", "2", "3", "4", "5", "6", "7", "8", "9",
               "a", "b", "c", "d", "e", "f">>
\* ipmitool prints a byte as " xx" and ends the line
ByteOut(n) == <<" ", HexDigits[(n \div 16) + 1], HexDigits[(n % 16) + 1], "\n">>
JunkOut == <<" ", "z", "z", "\n">>

\* replies to RAW_GET_VMEDIA_MOUNT_STATUS and to the service status read,
\* when the value polled for is `target` (0 or 1)
BitReplies(target) ==
    IF stub.mode = "scripted"
    THEN {Out(ByteOut(IF OnTarget THEN target ELSE 1 - target))}
    ELSE {Err, Out(ByteOut(0)), Out(ByteOut(1)), Out(JunkOut)}

\* replies to RAW_GET_VMEDIA_DEVICE_COUNT when `target` is the count polled for
CountReplies(target) ==
    IF stub.mode = "scripted"
    THEN {Out(ByteOut(IF OnTarget THEN target ELSE (target + 1) % (MaxSlots + 1)))}
    ELSE {Err, Out(JunkOut)} \cup {Out(ByteOut(n)) : n \in 0 .. MaxReplyCount}
         \cup (IF target \in 0 .. MaxSlots THEN {Out(ByteOut(target))} ELSE {})

\* replies to RAW_GET_MOUNTED_IMG_COUNT: "01 nn" carries the count nn
ImgOut(n) == <<" ", "0", "1", " ", HexDigits[(n \div 16) + 1], HexDigits[(n % 16) + 1], "\n">>
\* the texts a Transport may print for it: counts, a single byte, nothing,
\* a second byte that is no hex, and a second byte cut after one digit
ImgCountOutputs ==
    {ImgOut(0), ImgOut(1), ImgOut(10), ByteOut(1), <<>>,
     <<" ", "0", "1", " ", "z", "z", "\n">>, <<" ", "0", "1", " ", "1", "\n">>}
ImgCountReplies ==
    IF stub.mode = "scripted"
    THEN {Out(ImgOut(IF OnTarget THEN 1 ELSE 0))}
    ELSE {Err} \cup {Out(o) : o \in ImgCountOutputs}

\* replies to RAW_CHECK_NFS_SERVICE_STATUS: the image name in hex, or garbage
NfsStatusReplies ==
    IF stub.mode = "scripted"
    THEN {Out(<<" ", "6", "9", " ", "6", "d", "\n">>)}
    ELSE {Err, Out(<<" ", "6", "9", " ", "6", "d", "\n">>), Out(JunkOut),
          Out(<<" ", "6", "\n">>), Out(<<>>)}

-----------------------------------------------------------------------------
(* Python's text operations on a reply, on sequences of characters *)

Whitespace == {" ", "\n", "\t", "\r"}

RECURSIVE LStrip(_)
LStrip(s) == IF s # <<>> /\ Head(s) \in Whitespace THEN LStrip(Tail(s)) ELSE s

RECURSIVE RStrip(_)
RStrip(s) ==
    IF s # <<>> /\ s[Len(s)] \in Whitespace THEN RStrip(SubSeq(s, 1, Len(s) - 1)) ELSE s

\* str.strip()
Strip(s) == RStrip(LStrip(s))

\* s[a:b] for 0 <= a <= b
Slice(s, a, b) == SubSeq(s, a + 1, IF b < Len(s) THEN b ELSE Len(s))

DigitValue(c) == CHOOSE i \in 0 .. 15 : HexDigits[i + 1] = c
IsDigit(c, base) == \E i \in 0 .. base - 1 : HexDigits[i + 1] = c

RECURSIVE DigitsValue(_, _, _)
DigitsValue(s, base, acc) ==
    IF s = <<>> THEN acc
    ELSE DigitsValue(Tail(s), base, acc * base + DigitValue(Head(s)))

\* int(s, base): <<n>>, or <<>> when Python raises ValueError.
\* Surrounding whitespace and one sign are accepted, as is "0x" for base 16.
ParseInt(s, base) ==
    LET t == Strip(s)
        neg == t # <<>> /\ Head(t) = "-"
        u == IF t # <<>> /\ Head(t) \in {"+", "-"} THEN Tail(t) ELSE t
        v == IF base = 16 /\ Len(u) >= 2 /\ u[1] = "0" /\ u[2] \in {"x", "X"}
             THEN SubSeq(u, 3, Len(u)) ELSE u
    IN  IF v = <<>> \/ \E i \in 1 .. Len(v) : ~IsDigit(v[i], base)
        THEN <<>>
        ELSE <<(IF neg THEN -1 ELSE 1) * DigitsValue(v, base, 0)>>

\* bytearray.fromhex(s) succeeds: pairs of hex digits, spaces allowed between pairs
RECURSIVE FromHexOk(_)
FromHexOk(s) ==
    IF s = <<>> THEN TRUE
    ELSE IF Head(s) = " " THEN FromHexOk(Tail(s))
    ELSE Len(s) >= 2 /\ IsDigit(s[1], 16) /\ IsDigit(s[2], 16)
         /\ FromHexOk(SubSeq(s, 3, Len(s)))

\* out.replace('\n', '')
RECURSIVE RemoveNewlines(_)
RemoveNewlines(s) ==
    IF s = <<>> THEN <<>>
    ELSE IF Head(s) = "\n" THEN RemoveNewlines(Tail(s))
    ELSE <<Head(s)>> \o RemoveNewlines(Tail(s))

-----------------------------------------------------------------------------
(* The two public sequences and the control flow between their primitives *)

NoArgs == [devicetype |-> "", devicecount |-> 0, enabled |-> FALSE]
CountArgs(t, c) == [devicetype |-> t, devicecount |-> c, enabled |-> FALSE]
ToggleArgs(e) == [devicetype |-> "", devicecount |-> 0, enabled |-> e]

\* checked: the caller tests the value ("if not self._x(task): return False")
Stage(prim, a, checked) == [prim |-> prim, args |-> a, checked |-> checked]

\* attach_virtual_cd with the CD device enabled before the media service
AttachSeqSwapped ==
    << Stage("_toggle_virtual_device", ToggleArgs(TRUE), TRUE),
       Stage("_enable_virtual_media", NoArgs, TRUE),
       Stage("_clear_ris_configuration", NoArgs, TRUE),
       Stage("_set_setup_nfs", NoArgs, TRUE),
       Stage("_restart_ris_cd", NoArgs, TRUE),
       Stage("_wait_for_mount_count", NoArgs, TRUE),
       Stage("_set_image_name", NoArgs, TRUE),
       Stage("check_and_wait_for_cd_mounting", NoArgs, TRUE) >>

\* attach_virtual_cd without the test of _enable_virtual_media's value
AttachSeqUnchecked ==
    << Stage("_enable_virtual_media", NoArgs, FALSE),
       Stage("_toggle_virtual_device", ToggleArgs(TRUE), TRUE),
       Stage("_clear_ris_configuration", NoArgs, TRUE),
       Stage("_set_setup_nfs", NoArgs, TRUE),
       Stage("_restart_ris_cd", NoArgs, TRUE),
       Stage("_wait_for_mount_count", NoArgs, TRUE),
       Stage("_set_image_name", NoArgs, TRUE),
       Stage("check_and_wait_for_cd_mounting", NoArgs, TRUE) >>

\* detach_virtual_cd with the Remote Image Service restarted first
DetachSeqSwapped ==
    << Stage("_restart_ris", NoArgs, TRUE),
       Stage("_enable_virtual_media", NoArgs, TRUE),
       Stage("_stop_remote_redirection", NoArgs, FALSE),
       Stage("_clear_ris_configuration", NoArgs, TRUE),
       Stage("_toggle_virtual_device", ToggleArgs(FALSE), TRUE),
       Stage("_set_virtual_media_device_count", CountArgs("HD", 0), TRUE),
       Stage("_set_virtual_media_device_count", CountArgs("CD", 1), TRUE) >>

\* attach_virtual_cd: its last line returns the value of
\* check_and_wait_for_cd_mounting (True or False), which is the same as testing it
AttachSeq ==
    << Stage("_enable_virtual_media", NoArgs, TRUE),
       Stage("_toggle_virtual_device", ToggleArgs(TRUE), TRUE),
       Stage("_clear_ris_configuration", NoArgs, TRUE),
       Stage("_set_setup_nfs", NoArgs, TRUE),
       Stage("_restart_ris_cd", NoArgs, TRUE),
       Stage("_wait_for_mount_count", NoArgs, TRUE),
       Stage("_set_image_name", NoArgs, TRUE),
       Stage("check_and_wait_for_cd_mounting", NoArgs, TRUE) >>

DetachSeq ==
    << Stage("_enable_virtual_media", NoArgs, TRUE),
       Stage("_restart_ris", NoArgs, TRUE),
       Stage("_stop_remote_redirection", NoArgs, FALSE),
       Stage("_clear_ris_configuration", NoArgs, TRUE),
       Stage("_toggle_virtual_device", ToggleArgs(FALSE), TRUE),
       Stage("_set_virtual_media_device_count", CountArgs("HD", 0), TRUE),
       Stage("_set_virtual_media_device_count", CountArgs("CD", 1), TRUE) >>

Orchestrated == {"attach_virtual_cd", "detach_virtual_cd"}

\* the primitives, each of which can also be called on its own
Primitives ==
    { "_enable_virtual_media", "_toggle_virtual_device", "_clear_ris_configuration",
      "_set_setup_nfs", "_restart_ris_cd", "_restart_ris", "_wait_for_mount_count",
      "_set_image_name", "check_and_wait_for_cd_mounting",
      "_stop_remote_redirection", "_set_virtual_media_device_count",
      "_issue_bmc_reset", "_get_virtual_media_device_count" }

Program(o, a) ==
    IF o = "attach_virtual_cd" THEN AttachSeq
    ELSE IF o = "detach_virtual_cd" THEN DetachSeq
    ELSE << Stage(o, a, FALSE) >>

\* first position of each primitive
Entry(prim) ==
    CASE prim = "_enable_virtual_media" -> "enable_check"
      [] prim = "_toggle_virtual_device" -> "toggle_set"
      [] prim = "_clear_ris_configuration" -> "clear_ris"
      [] prim = "_set_setup_nfs" -> "nfs_type"
      [] prim = "_restart_ris_cd" -> "restart_ris_cd"
      [] prim = "_restart_ris" -> "restart_ris"
      [] prim = "_wait_for_mount_count" -> "mount_count_begin"
      [] prim = "_set_image_name" -> "set_image_name"
      [] prim = "check_and_wait_for_cd_mounting" -> "cd_check"
      [] prim = "_stop_remote_redirection" -> "stop_count"
      [] prim = "_set_virtual_media_device_count" -> "count_set"
      [] prim = "_issue_bmc_reset" -> "reset_cold"
      [] prim = "_get_virtual_media_device_count" -> "count_read"
      [] prim = "prepare_ramdisk" -> "pr_check"
      [] prim = "_setup_deploy_iso" -> "iso_href"
      [] prim = "_setup_vmedia_for_boot" -> "vm_detach_cd"

Raises == {"InstanceDeployFailure", "IPMIFailure", "UnboundLocalError"}

\* gets and sleeps of the running primitive, how its last get ended, and the
\* first command of it on which the Transport raised ("" when none did)
ZeroPoll == [gets |-> 0, sleeps |-> 0, last |-> "none", raised |-> ""]

\* the call ends with value or exception v
Done(v, p) ==
    /\ pc' = "done"
    /\ result' = v
    /\ poll' = p
    /\ UNCHANGED <<idx, args>>

\* the sequence goes on with its stage k
Goto(k) ==
    /\ pc' = Entry(Program(op, args)[k].prim)
    /\ idx' = k
    /\ args' = Program(op, args)[k].args
    /\ poll' = ZeroPoll
    /\ UNCHANGED result

\* The running primitive returns v (or raises v); p is its poll record.
\* Its locals die with its frame.  failedAt notes the first stage of a
\* sequence whose primitive returned False.
Ret(v, p) ==
    /\ tries' = 0
    /\ conf' = <<>>
    /\ driveindex' = <<>>
    /\ failedAt' = IF op \in Orchestrated /\ v = "False" /\ failedAt = 0
                   THEN idx ELSE failedAt
    /\ IF v \in Raises \/ op \notin Orchestrated
       THEN Done(v, p)
       ELSE IF Program(op, args)[idx].checked /\ v # "True"
       THEN Done("False", p)
       ELSE IF idx < Len(Program(op, args))
       THEN Goto(idx + 1)
       ELSE Done("True", p)

\* the running primitive goes on at position l
Step(l, p) ==
    /\ pc' = l
    /\ poll' = p
    /\ UNCHANGED <<idx, args, result, failedAt>>

-----------------------------------------------------------------------------
(* Instrumentation of the Transport *)

StageOf(cmd) ==
    CASE cmd \in {"RAW_SET_VMEDIA_STATUS", "RAW_RESTART_VMEDIA",
                  "RAW_GET_VMEDIA_SERVICE_STATUS"} -> "enable_media_service"
      [] cmd \in {"RAW_SET_VMEDIA_MOUNT_STATUS", "RAW_GET_VMEDIA_MOUNT_STATUS"} ->
             IF args.enabled THEN "enable_cd_device" ELSE "disable_cd_device"
      [] cmd = "RAW_CLEAR_RIS_CONFIG" -> "clear_ris_config"
      [] cmd \in {"RAW_SET_RIS_NFS", "RAW_SET_RIS_NFS_IP", "RAW_SET_RIS_PROGRESS",
                  "RAW_SET_RIS_NFS_PATH"} -> "network_share"
      [] cmd = "RAW_RESTART_RIS_CD" -> "restart_ris_cd"
      [] cmd = "RAW_RESTART_RIS" -> "restart_ris"
      [] cmd = "RAW_GET_MOUNTED_IMG_COUNT" -> "wait_for_image"
      [] cmd = "RAW_SET_IMG_NAME" -> "set_image_name"
      [] cmd = "RAW_CHECK_NFS_SERVICE_STATUS" -> "disk_status"
      [] cmd = "RAW_STOP_REDIRECT" -> "stop_redirection"
      [] cmd \in {"bmc reset cold", "bmc info"} -> "recovery"
      [] cmd \in {"RAW_GET_VMEDIA_DEVICE_COUNT", "RAW_SET_VMEDIA_DEVICE_COUNT"} ->
             IF pc = "stop_count" THEN "stop_redirection"
             ELSE IF args.devicetype = "HD" THEN "hd_slot_count" ELSE "cd_slot_count"

AddStage(sq, c) == IF sq # <<>> /\ sq[Len(sq)] = c THEN sq ELSE Append(sq, c)

\* the command is handed to ipmitool.send_raw
SendArg(cmd, arg) ==
    /\ sent' = Append(sent, <<cmd, arg>>)
    /\ stages' = AddStage(stages, StageOf(cmd))
Send(cmd) == SendArg(cmd, 0)

NoSend == UNCHANGED <<sent, stages>>

\* one more get, whose reply was a "match", a "mismatch" or an "error"
Got(p, how) == [p EXCEPT !.gets = p.gets + 1, !.last = how]
Slept(p) == [p EXCEPT !.sleeps = p.sleeps + 1]

\* the reply r of command cmd, noted when it is the first exception
Raised(p, cmd, r) ==
    IF r = "err" /\ p.raised = "" THEN [p EXCEPT !.raised = cmd] ELSE p

EmptyCtl == [svc |-> 1, mount |-> 0, hd |-> 0, cd |-> 1, ris |-> "clear"]
DefaultCtl == [svc |-> 0, mount |-> 1, hd |-> MaxSlots, cd |-> MaxSlots, ris |-> "clear"]

UnchangedBoot ==
    UNCHANGED <<provision_state, os_net_config, ramdisk_params, boot_device, media>>
UnchangedCall == UNCHANGED <<op, hw, stub, ctl0, calls>> /\ UnchangedBoot
UnchangedReset == UNCHANGED <<status, resets, infos>>
UnchangedLocals == UNCHANGED <<tries, conf, driveindex>>

-----------------------------------------------------------------------------
(* _check_virtual_media_started, _start_virtual_media,                     *)
(* _restart_virtual_media_service, _enable_virtual_media                   *)

\* "cmd = RAW_GET_VMEDIA_SERVICE_STATUS" reads a module-level name
ServiceStatusNameBound == "RAW_GET_VMEDIA_SERVICE_STATUS" \in ModuleGlobals

\* service_status == '01'
ServiceStarted(r) == ~r.err /\ Strip(r.out) = <<"0", "1">>

\* The try block of _check_virtual_media_started (lines 131-135).  When the
\* name is unbound it raises NameError before send_raw is reached: nothing is
\* sent, the handler logs the error and service_status stays None.
ServiceStatusReads ==
    IF ServiceStatusNameBound
    THEN {[sent |-> TRUE, r |-> x] : x \in BitReplies(1)}
    ELSE {[sent |-> FALSE, r |-> Err]}

\* the value of _check_virtual_media_started
check_virtual_media_started(t) == t.sent /\ ServiceStarted(t.r)

CheckSend(t) == IF t.sent THEN Send("RAW_GET_VMEDIA_SERVICE_STATUS") ELSE NoSend

CheckPoll(t) ==
    IF ~t.sent THEN poll
    ELSE Got(poll, IF ServiceStarted(t.r) THEN "match"
                   ELSE IF t.r.err THEN "error" ELSE "mismatch")

\* _enable_virtual_media, lines 182-184
EnableCheck ==
    /\ pc = "enable_check"
    /\ \E t \in ServiceStatusReads :
          /\ CheckSend(t)
          /\ IF check_virtual_media_started(t)
             THEN Ret("True", CheckPoll(t))
             ELSE Step("enable_start", CheckPoll(t)) /\ UnchangedLocals
    /\ UNCHANGED ctl
    /\ UnchangedCall /\ UnchangedReset

\* _start_virtual_media: an exception of send_raw is logged and dropped
EnableStart ==
    /\ pc = "enable_start"
    /\ \E r \in SetReplies :
          /\ Send("RAW_SET_VMEDIA_STATUS")
          /\ ctl' = IF r = "ok" THEN [ctl EXCEPT !.svc = 1] ELSE ctl
          /\ Step("enable_restart", Raised(poll, "RAW_SET_VMEDIA_STATUS", r))
    /\ UnchangedLocals
    /\ UnchangedCall /\ UnchangedReset

\* _restart_virtual_media_service, then "tries = 60"
EnableRestart ==
    /\ pc = "enable_restart"
    /\ \E r \in SetReplies :
          /\ Send("RAW_RESTART_VMEDIA")
          /\ Step("enable_poll", Raised(poll, "RAW_RESTART_VMEDIA", r))
    /\ tries' = EnableTries
    /\ UNCHANGED <<conf, driveindex, ctl>>
    /\ UnchangedCall /\ UnchangedReset

\* an _enable_virtual_media that raises when its attempts are used up
EnableSleepRaises(p) ==
    IF tries - 1 > 0
    THEN /\ tries' = tries - 1
         /\ Step("enable_poll", Slept(p))
         /\ UNCHANGED <<conf, driveindex>>
    ELSE Ret("IPMIFailure", Slept(p))

\* an _enable_virtual_media whose loop has no way out once its attempts are
\* used up: the method neither returns nor raises
EnableSleepNoExit(p) ==
    /\ tries - 1 > 0
    /\ tries' = tries - 1
    /\ Step("enable_poll", Slept(p))
    /\ UNCHANGED <<conf, driveindex>>

\* "time.sleep(5); tries -= 1" and the loop test
EnableSleep(p) ==
    IF tries - 1 > 0
    THEN /\ tries' = tries - 1
         /\ Step("enable_poll", Slept(p))
         /\ UNCHANGED <<conf, driveindex>>
    ELSE Ret("False", Slept(p))

\* one turn of "while tries > 0" in _enable_virtual_media
EnablePoll ==
    /\ pc = "enable_poll"
    /\ \E t \in ServiceStatusReads :
          /\ CheckSend(t)
          /\ IF check_virtual_media_started(t)
             THEN Ret("True", CheckPoll(t))
             ELSE EnableSleep(CheckPoll(t))
    /\ UNCHANGED ctl
    /\ UnchangedCall /\ UnchangedReset

-----------------------------------------------------------------------------
(* _toggle_virtual_device (_mount_virtual_device, _demount_virtual_device) *)

\* status = '01' if enabled else '00'
StatusText(enabled) == IF enabled THEN <<"0", "1">> ELSE <<"0", "0">>
StatusBit(enabled) == IF enabled THEN 1 ELSE 0

\* a _toggle_virtual_device that logs an exception of its set command and
\* goes on to poll
ToggleSetKeepsPolling ==
    /\ pc = "toggle_set"
    /\ \E r \in SetReplies :
          /\ SendArg("RAW_SET_VMEDIA_MOUNT_STATUS", StatusBit(args.enabled))
          /\ ctl' = IF r = "ok" THEN [ctl EXCEPT !.mount = StatusBit(args.enabled)] ELSE ctl
          /\ tries' = ToggleTries
          /\ Step("toggle_poll", Raised(poll, "RAW_SET_VMEDIA_MOUNT_STATUS", r))
          /\ UNCHANGED <<conf, driveindex>>
    /\ UnchangedCall /\ UnchangedReset

\* the set command; an exception leaves the try block and False is returned
ToggleSet ==
    /\ pc = "toggle_set"
    /\ \E r \in SetReplies :
          /\ SendArg("RAW_SET_VMEDIA_MOUNT_STATUS", StatusBit(args.enabled))
          /\ IF r = "err"
             THEN /\ Ret("False", Raised(poll, "RAW_SET_VMEDIA_MOUNT_STATUS", r))
                  /\ UNCHANGED ctl
             ELSE /\ ctl' = [ctl EXCEPT !.mount = StatusBit(args.enabled)]
                  /\ tries' = ToggleTries
                  /\ Step("toggle_poll", poll)
                  /\ UNCHANGED <<conf, driveindex>>
    /\ UnchangedCall /\ UnchangedReset

\* "tries -= 1; time.sleep(2)" and the loop test
ToggleSleep(p) ==
    IF tries - 1 > 0
    THEN /\ tries' = tries - 1
         /\ Step("toggle_poll", Slept(p))
         /\ UNCHANGED <<conf, driveindex>>
    ELSE Ret("False", Slept(p))

\* one turn of "while tries > 0" in _toggle_virtual_device
TogglePoll ==
    /\ pc = "toggle_poll"
    /\ \E r \in BitReplies(StatusBit(args.enabled)) :
          /\ Send("RAW_GET_VMEDIA_MOUNT_STATUS")
          /\ IF r.err
             THEN Ret("False", Got(poll, "error"))
             ELSE IF Strip(r.out) = StatusText(args.enabled)
             THEN Ret("True", Got(poll, "match"))
             ELSE ToggleSleep(Got(poll, "mismatch"))
    /\ UNCHANGED ctl
    /\ UnchangedCall /\ UnchangedReset

-----------------------------------------------------------------------------
(* The single commands: _clear_ris_configuration, _restart_ris,            *)
(* _restart_ris_cd, _set_image_name.  An exception gives False.            *)

ClearRis ==
    /\ pc = "clear_ris"
    /\ \E r \in SetReplies :
          /\ Send("RAW_CLEAR_RIS_CONFIG")
          /\ ctl' = IF r = "ok" THEN [ctl EXCEPT !.ris = "clear"] ELSE ctl
          /\ Ret(IF r = "ok" THEN "True" ELSE "False", Raised(poll, "RAW_CLEAR_RIS_CONFIG", r))
    /\ UnchangedCall /\ UnchangedReset

RestartRis ==
    /\ pc = "restart_ris"
    /\ \E r \in SetReplies :
          /\ Send("RAW_RESTART_RIS")
          /\ Ret(IF r = "ok" THEN "True" ELSE "False", Raised(poll, "RAW_RESTART_RIS", r))
    /\ UNCHANGED ctl
    /\ UnchangedCall /\ UnchangedReset

RestartRisCd ==
    /\ pc = "restart_ris_cd"
    /\ \E r \in SetReplies :
          /\ Send("RAW_RESTART_RIS_CD")
          /\ Ret(IF r = "ok" THEN "True" ELSE "False", Raised(poll, "RAW_RESTART_RIS_CD", r))
    /\ UNCHANGED ctl
    /\ UnchangedCall /\ UnchangedReset

SetImageName ==
    /\ pc = "set_image_name"
    /\ \E r \in SetReplies :
          /\ Send("RAW_SET_IMG_NAME")
          /\ ctl' = IF r = "ok" THEN [ctl EXCEPT !.ris = "image"] ELSE ctl
          /\ Ret(IF r = "ok" THEN "True" ELSE "False", Raised(poll, "RAW_SET_IMG_NAME", r))
    /\ UnchangedCall /\ UnchangedReset

-----------------------------------------------------------------------------
(* _set_setup_nfs: _set_share_type, _set_nfs_server_ip, _set_nfs_root_path *)

\* _set_share_type re-raises, and _set_setup_nfs turns the exception into False
NfsType ==
    /\ pc = "nfs_type"
    /\ \E r \in SetReplies :
          /\ Send("RAW_SET_RIS_NFS")
          /\ IF r = "err"
             THEN Ret("False", Raised(poll, "RAW_SET_RIS_NFS", r)) /\ UNCHANGED ctl
             ELSE /\ ctl' = [ctl EXCEPT !.ris = "nfs"]
                  /\ Step("nfs_ip", poll)
                  /\ UnchangedLocals
    /\ UnchangedCall /\ UnchangedReset

\* a _set_setup_nfs that goes on to the path after a failed server-IP command
NfsIpDropsError ==
    /\ pc = "nfs_ip"
    /\ \E r \in SetReplies :
          /\ Send("RAW_SET_RIS_NFS_IP")
          /\ Step("nfs_progress_clear", Raised(poll, "RAW_SET_RIS_NFS_IP", r))
          /\ UnchangedLocals
    /\ UNCHANGED ctl
    /\ UnchangedCall /\ UnchangedReset

\* _set_nfs_server_ip re-raises as well
NfsIp ==
    /\ pc = "nfs_ip"
    /\ \E r \in SetReplies :
          /\ Send("RAW_SET_RIS_NFS_IP")
          /\ IF r = "err"
             THEN Ret("False", Raised(poll, "RAW_SET_RIS_NFS_IP", r))
             ELSE Step("nfs_progress_clear", poll) /\ UnchangedLocals
    /\ UNCHANGED ctl
    /\ UnchangedCall /\ UnchangedReset

\* _set_nfs_root_path returns False from its handler and nothing otherwise;
\* _set_setup_nfs drops that value and goes on to "return True" (line 253)
SetupNfsValue(rootPathValue) == "True"

\* one command of _set_nfs_root_path; `next` is the position after it
NfsRootPathCommand(cmd, arg, next) ==
    \E r \in SetReplies :
        /\ SendArg(cmd, arg)
        /\ IF r = "err"
           THEN Ret(SetupNfsValue("False"), Raised(poll, cmd, r))
           ELSE IF next = "return"
           THEN Ret(SetupNfsValue("None"), poll)
           ELSE Step(next, poll) /\ UnchangedLocals

\* line 226-227: clear the progress bit
NfsProgressClear ==
    /\ pc = "nfs_progress_clear"
    /\ NfsRootPathCommand("RAW_SET_RIS_PROGRESS", 0, "nfs_progress_set")
    /\ UNCHANGED ctl
    /\ UnchangedCall /\ UnchangedReset

\* line 230-232: set the progress bit
NfsProgressSet ==
    /\ pc = "nfs_progress_set"
    /\ NfsRootPathCommand("RAW_SET_RIS_PROGRESS", 1, "nfs_path")
    /\ UNCHANGED ctl
    /\ UnchangedCall /\ UnchangedReset

\* line 234-236: write the path
NfsPath ==
    /\ pc = "nfs_path"
    /\ NfsRootPathCommand("RAW_SET_RIS_NFS_PATH", 0, "nfs_last")
    /\ UNCHANGED ctl
    /\ UnchangedCall /\ UnchangedReset

\* line 239-240: the new command is assigned to "md", and "cmd", still the
\* path command, is sent again
NfsLast ==
    /\ pc = "nfs_last"
    /\ NfsRootPathCommand("RAW_SET_RIS_NFS_PATH", 0, "return")
    /\ UNCHANGED ctl
    /\ UnchangedCall /\ UnchangedReset

-----------------------------------------------------------------------------
(* _get_mounted_image_count, _wait_for_mount_count *)

\* a _get_mounted_image_count whose handler answers 1
get_mounted_image_count_HandlerOne(r) ==
    IF r.err THEN 1
    ELSE LET v == ParseInt(Slice(Strip(r.out), 3, 5), 16)
         IN  IF v = <<>> THEN 1 ELSE v[1]

\* int(out.strip()[3:5], 16) of every text the Transport may print
ImgCountParsed == [out \in ImgCountOutputs |-> ParseInt(Slice(Strip(out), 3, 5), 16)]

\* count = int(out.strip()[3:5], 16), and 0 after any exception
get_mounted_image_count(r) ==
    IF r.err THEN 0
    ELSE LET v == ImgCountParsed[r.out]
         IN  IF v = <<>> THEN 0 ELSE v[1]

\* The shape of a reply to RAW_GET_MOUNTED_IMG_COUNT, told without parsing it:
\* a transport error; two bytes with a count above 0 ("match") or of 0
\* ("mismatch"); fewer than two bytes ("short"); a second byte that is cut
\* after its first digit ("halfbyte"); anything else ("nonhex").
ImgShape(r) ==
    IF r.err THEN "error"
    ELSE IF \E n \in 1 .. 255 : r.out = ImgOut(n) THEN "match"
    ELSE IF r.out = ImgOut(0) THEN "mismatch"
    ELSE IF r.out \in {<<>>} \cup {ByteOut(n) : n \in 0 .. 255} THEN "short"
    ELSE IF \E n \in 0 .. 15 : r.out = <<" ", "0", "1", " ", HexDigits[n + 1], "\n">>
    THEN "halfbyte"
    ELSE "nonhex"

\* "tries = 60"
MountCountBegin ==
    /\ pc = "mount_count_begin"
    /\ tries' = MountCountTries
    /\ Step("mount_count_poll", poll)
    /\ NoSend
    /\ UNCHANGED <<conf, driveindex, ctl>>
    /\ UnchangedCall /\ UnchangedReset

MountCountSleep(p) ==
    IF tries - 1 > 0
    THEN /\ tries' = tries - 1
         /\ Step("mount_count_poll", Slept(p))
         /\ UNCHANGED <<conf, driveindex>>
    ELSE Ret("False", Slept(p))

\* one turn of "while tries > 0" in _wait_for_mount_count
MountCountPoll ==
    /\ pc = "mount_count_poll"
    /\ \E r \in ImgCountReplies :
          /\ Send("RAW_GET_MOUNTED_IMG_COUNT")
          /\ IF get_mounted_image_count(r) > 0
             THEN Ret("True", Got(poll, ImgShape(r)))
             ELSE MountCountSleep(Got(poll, ImgShape(r)))
    /\ UNCHANGED ctl
    /\ UnchangedCall /\ UnchangedReset

-----------------------------------------------------------------------------
(* _get_virtual_media_device_count, _set_virtual_media_device_count *)

\* the texts a Transport may print for the count read, and int(out.strip())
\* of each
DeviceCountOutputs == {JunkOut} \cup {ByteOut(n) : n \in 0 .. 255}
DeviceCountParsed == [out \in DeviceCountOutputs |-> ParseInt(Strip(out), 10)]

\* _num_inst = int(out.strip()); the handler of any exception returns nothing,
\* so the caller gets None, written <<>>
DeviceCountValue(r) == IF r.err THEN <<>> ELSE DeviceCountParsed[r.out]

HowCount(r, c) ==
    IF r.err THEN "error" ELSE IF DeviceCountValue(r) = <<c>> THEN "match" ELSE "mismatch"

\* the text of a returned count (0 .. 9)
Repr(n) == HexDigits[n + 1]

\* replies to the count read of _get_virtual_media_device_count called on its
\* own: a scripted stub reports the register of the device type
ReadCountReplies ==
    IF stub.mode = "scripted"
    THEN {Out(ByteOut(IF args.devicetype = "CD" THEN ctl.cd
                      ELSE IF args.devicetype = "HD" THEN ctl.hd ELSE 0))}
    ELSE {Err, Out(JunkOut)} \cup {Out(ByteOut(n)) : n \in 0 .. MaxReplyCount}

\* _get_virtual_media_device_count, lines 69-93: an unknown device type
\* returns _num_inst = 0 before a command is built; after an exception the
\* method returns nothing
CountRead ==
    /\ pc = "count_read"
    /\ IF args.devicetype \notin {"CD", "FD", "HD"}
       THEN NoSend /\ Ret(Repr(0), poll)
       ELSE \E r \in ReadCountReplies :
              /\ Send("RAW_GET_VMEDIA_DEVICE_COUNT")
              /\ Ret(IF DeviceCountValue(r) = <<>> THEN "None"
                     ELSE Repr(DeviceCountValue(r)[1]),
                     Got(poll, IF r.err THEN "error" ELSE "match"))
    /\ UNCHANGED ctl
    /\ UnchangedCall /\ UnchangedReset

\* a _set_virtual_media_device_count that checks its arguments after the set
\* command
CountSetSendsFirst ==
    /\ pc = "count_set"
    /\ \E r \in SetReplies :
          /\ SendArg("RAW_SET_VMEDIA_DEVICE_COUNT", args.devicecount)
          /\ IF r = "err" \/ ~(0 <= args.devicecount /\ args.devicecount <= MaxSlots)
                \/ args.devicetype \notin {"CD", "HD"}
             THEN /\ Ret("False", Raised(poll, "RAW_SET_VMEDIA_DEVICE_COUNT", r))
                  /\ UNCHANGED ctl
             ELSE /\ ctl' = IF args.devicetype = "CD"
                             THEN [ctl EXCEPT !.cd = args.devicecount]
                             ELSE [ctl EXCEPT !.hd = args.devicecount]
                  /\ Step("count_get", poll)
                  /\ UnchangedLocals
    /\ UnchangedCall /\ UnchangedReset

\* lines 97-113: the argument checks, then the set command
CountSet ==
    /\ pc = "count_set"
    /\ IF ~(0 <= args.devicecount /\ args.devicecount <= MaxSlots)
       THEN NoSend /\ UNCHANGED ctl /\ Ret("False", poll)
       ELSE IF args.devicetype \notin {"CD", "HD"}
       THEN NoSend /\ UNCHANGED ctl /\ Ret("False", poll)
       ELSE \E r \in SetReplies :
              /\ SendArg("RAW_SET_VMEDIA_DEVICE_COUNT", args.devicecount)
              /\ IF r = "err"
                 THEN /\ Ret("False", Raised(poll, "RAW_SET_VMEDIA_DEVICE_COUNT", r))
                      /\ UNCHANGED ctl
                 ELSE /\ ctl' = IF args.devicetype = "CD"
                                 THEN [ctl EXCEPT !.cd = args.devicecount]
                                 ELSE [ctl EXCEPT !.hd = args.devicecount]
                      /\ Step("count_get", poll)
                      /\ UnchangedLocals
    /\ UnchangedCall /\ UnchangedReset

\* The test of "while _conf_device_num != devicecount and _tries > 0" with the
\* values c and t, and the start of the loop body: log.debug formats c with %d,
\* which raises TypeError for None; the handler at line 123 returns False.
\* When the loop is left, line 126 returns True.
CountLoopTest(c, t, p) ==
    IF c # <<args.devicecount>> /\ t > 0
    THEN IF c = <<>>
         THEN Ret("False", p)
         ELSE /\ conf' = c
              /\ tries' = t
              /\ Step("count_poll", Slept(p))
              /\ UNCHANGED driveindex
    ELSE Ret("True", p)

\* lines 115-117: the first read-back, "_tries = 40"
CountGet ==
    /\ pc = "count_get"
    /\ \E r \in CountReplies(args.devicecount) :
          /\ Send("RAW_GET_VMEDIA_DEVICE_COUNT")
          /\ CountLoopTest(DeviceCountValue(r), SlotCountTries,
                           Got(poll, HowCount(r, args.devicecount)))
    /\ UNCHANGED ctl
    /\ UnchangedCall /\ UnchangedReset

\* lines 120-121: the read-back of the loop body, "_tries = _tries - 1"
CountPoll ==
    /\ pc = "count_poll"
    /\ \E r \in CountReplies(args.devicecount) :
          /\ Send("RAW_GET_VMEDIA_DEVICE_COUNT")
          /\ CountLoopTest(DeviceCountValue(r), tries - 1,
                           Got(poll, HowCount(r, args.devicecount)))
    /\ UNCHANGED ctl
    /\ UnchangedCall /\ UnchangedReset

-----------------------------------------------------------------------------
(* _stop_remote_redirection *)

\* the CD count read at line 320: a scripted stub reports the register
StopCountReplies ==
    IF stub.mode = "scripted"
    THEN {Out(ByteOut(ctl.cd))}
    ELSE {Err, Out(JunkOut)} \cup {Out(ByteOut(n)) : n \in 0 .. MaxReplyCount}

\* line 320-321.  range(0, None) raises TypeError; the handler formats
\* driveindex, which is not bound yet, and UnboundLocalError leaves the method.
StopCount ==
    /\ pc = "stop_count"
    /\ \E r \in StopCountReplies :
          /\ Send("RAW_GET_VMEDIA_DEVICE_COUNT")
          /\ LET n == DeviceCountValue(r)
             IN  IF n = <<>>
                 THEN Ret("UnboundLocalError", Got(poll, "error"))
                 ELSE IF n[1] <= 0
                 THEN Ret("None", Got(poll, "match"))
                 ELSE /\ conf' = n
                      /\ driveindex' = <<0>>
                      /\ Step("stop_slot", Got(poll, "match"))
                      /\ UNCHANGED tries
    /\ UNCHANGED ctl
    /\ UnchangedCall /\ UnchangedReset

\* line 322-325: one turn of the for loop; an exception ends the loop in the
\* handler, which logs it (driveindex is bound now) and passes
StopSlot ==
    /\ pc = "stop_slot"
    /\ \E r \in SetReplies :
          /\ SendArg("RAW_STOP_REDIRECT", driveindex[1])
          /\ IF r = "err"
             THEN Ret("None", Raised(poll, "RAW_STOP_REDIRECT", r))
             ELSE IF driveindex[1] + 1 < conf[1]
             THEN /\ driveindex' = <<driveindex[1] + 1>>
                  /\ Step("stop_slot", poll)
                  /\ UNCHANGED <<tries, conf>>
             ELSE Ret("None", poll)
    /\ UNCHANGED ctl
    /\ UnchangedCall /\ UnchangedReset

-----------------------------------------------------------------------------
(* get_disk_attachment_status, check_and_wait_for_cd_mounting,             *)
(* _wait_for_cd_mounting, _issue_bmc_reset                                 *)

\* a get_disk_attachment_status that answers 'mounting' after an exception
FalconDiskStatusPending(r) ==
    IF r.err \/ ~FromHexOk(Strip(RemoveNewlines(r.out))) THEN "mounting" ELSE "mounted"

\* FALCON.get_disk_attachment_status: 'mounted' when the reply decodes as hex,
\* 'nfserror' after any exception
FalconDiskStatus(r) ==
    IF r.err \/ ~FromHexOk(Strip(RemoveNewlines(r.out))) THEN "nfserror" ELSE "mounted"

\* what a subclass of OpenBMCIronicVirtMediaHW may answer (docstring, lines
\* 35-37), and a value outside of the documented ones
BaseStatuses ==
    IF stub.mode = "scripted"
    THEN {IF OnTarget THEN "mounted" ELSE "mounting"}
    ELSE {"mounting", "nfserror", "mounted", "unknown"}

\* self.get_disk_attachment_status(task): the status, and whether a command
\* went to the Transport for it
DiskStatusReads ==
    IF hw = "FALCON"
    THEN {[sent |-> TRUE, st |-> FalconDiskStatus(r)] : r \in NfsStatusReplies}
    ELSE {[sent |-> FALSE, st |-> st] : st \in BaseStatuses}

DiskStatusSend(d) == IF d.sent THEN Send("RAW_CHECK_NFS_SERVICE_STATUS") ELSE NoSend

DiskStatusPoll(d) ==
    Got(poll, IF d.st = "mounted" THEN "match"
              ELSE IF d.st = "mounting" THEN "mismatch" ELSE "error")

\* check_and_wait_for_cd_mounting, lines 98-113, up to the call of
\* _wait_for_cd_mounting, which begins with "sleep_count = 10"
CdCheckThen(st, p) ==
    IF st = "mounting"
    THEN /\ tries' = CdWaitSleepCount
         /\ Step("cd_wait", p)
         /\ UNCHANGED <<conf, driveindex>>
    ELSE IF st = "nfserror"
    THEN Ret("InstanceDeployFailure", p)
    ELSE IF st = "mounted"
    THEN Ret("True", p)
    ELSE Ret("InstanceDeployFailure", p)

CdCheck ==
    /\ pc = "cd_check"
    /\ \E d \in DiskStatusReads :
          /\ DiskStatusSend(d)
          /\ status' = d.st
          /\ CdCheckThen(d.st, DiskStatusPoll(d))
    /\ UNCHANGED <<ctl, resets, infos>>
    /\ UnchangedCall

\* a _wait_for_cd_mounting without "if sleep_count: return True": the reset
\* follows the loop in every case
CdWaitThenResets(st, p) ==
    IF st = "mounting" /\ tries > 0
    THEN /\ tries' = tries - 1
         /\ Step("cd_wait", Slept(p))
         /\ UNCHANGED <<conf, driveindex>>
    ELSE Step("reset_cold", p) /\ UnchangedLocals

\* _wait_for_cd_mounting: the loop test reads the status first and then tests
\* sleep_count; "if sleep_count: return True", and True makes
\* check_and_wait_for_cd_mounting return True; else the reset follows
CdWaitThen(st, p) ==
    IF st = "mounting" /\ tries > 0
    THEN /\ tries' = tries - 1
         /\ Step("cd_wait", Slept(p))
         /\ UNCHANGED <<conf, driveindex>>
    ELSE IF tries > 0
    THEN Ret("True", p)
    ELSE Step("reset_cold", p) /\ UnchangedLocals

CdWait ==
    /\ pc = "cd_wait"
    /\ \E d \in DiskStatusReads :
          /\ DiskStatusSend(d)
          /\ status' = d.st
          /\ CdWaitThen(d.st, DiskStatusPoll(d))
    /\ UNCHANGED <<ctl, resets, infos>>
    /\ UnchangedCall

\* _issue_bmc_reset, lines 50-64: 'bmc reset cold'; ProcessExecutionError
\* becomes IPMIFailure
ResetCold ==
    /\ pc = "reset_cold"
    /\ \E r \in SetReplies :
          /\ Send("bmc reset cold")
          /\ IF r = "err"
             THEN Ret("IPMIFailure", Raised(poll, "bmc reset cold", r))
             ELSE /\ tries' = BmcInfoSleepCount
                  /\ Step("reset_info", poll)
                  /\ UNCHANGED <<conf, driveindex>>
    /\ resets' = resets + 1
    /\ UNCHANGED <<ctl, status, infos>>
    /\ UnchangedCall

\* the liveness reply does not follow the script of the gets
InfoReplies == {"ok", "err"}

\* the liveness command answered ("alive") or raised ("dead")
Alive(p, r) == [p EXCEPT !.last = IF r = "ok" THEN "alive" ELSE "dead"]

\* a check_and_wait_for_cd_mounting that reports success after the reset
ResetReturnSuccess == IF op = "_issue_bmc_reset" THEN "None" ELSE "True"

\* After the break at line 67 _issue_bmc_reset returns nothing; then
\* _wait_for_cd_mounting returns nothing, and check_and_wait_for_cd_mounting
\* returns False.
ResetReturn == IF op = "_issue_bmc_reset" THEN "None" ELSE "False"

\* an _issue_bmc_reset that returns when its attempts are used up
ResetInfoGivesUp ==
    /\ pc = "reset_info"
    /\ \E r \in InfoReplies :
          /\ Send("bmc info")
          /\ IF r = "ok"
             THEN Ret(ResetReturn, Alive(poll, r))
             ELSE IF tries - 1 > 0
             THEN /\ tries' = tries - 1
                  /\ Step("reset_info", Slept(Alive(poll, r)))
                  /\ UNCHANGED <<conf, driveindex>>
             ELSE Ret(ResetReturn, Slept(Alive(poll, r)))
    /\ infos' = infos + 1
    /\ UNCHANGED <<ctl, status, resets>>
    /\ UnchangedCall

\* an _issue_bmc_reset without the break: an answer counts as one more turn
ResetInfoPollsOn ==
    /\ pc = "reset_info"
    /\ \E r \in InfoReplies :
          /\ Send("bmc info")
          /\ IF tries - 1 > 0
             THEN /\ tries' = tries - 1
                  /\ Step("reset_info", Slept(Alive(poll, r)))
                  /\ UNCHANGED <<conf, driveindex>>
             ELSE Ret(IF r = "ok" THEN ResetReturn ELSE "IPMIFailure", Slept(Alive(poll, r)))
    /\ infos' = infos + 1
    /\ UNCHANGED <<ctl, status, resets>>
    /\ UnchangedCall

\* _issue_bmc_reset, lines 65-81: one turn of "while sleep_count"
ResetInfo ==
    /\ pc = "reset_info"
    /\ \E r \in InfoReplies :
          /\ Send("bmc info")
          /\ IF r = "ok"
             THEN Ret(ResetReturn, Alive(poll, r))
             ELSE IF tries - 1 > 0
             THEN /\ tries' = tries - 1
                  /\ Step("reset_info", Slept(Alive(poll, r)))
                  /\ UNCHANGED <<conf, driveindex>>
             ELSE Ret("IPMIFailure", Slept(Alive(poll, r)))
    /\ infos' = infos + 1
    /\ UNCHANGED <<ctl, status, resets>>
    /\ UnchangedCall

-----------------------------------------------------------------------------
(* VirtmediaBoot: prepare_ramdisk, _setup_deploy_iso, _setup_vmedia_for_boot *)

BootMethods == {"prepare_ramdisk", "_setup_deploy_iso", "_setup_vmedia_for_boot"}

\* values of task.node.provision_state: the two prepare_ramdisk acts on, and
\* two others
NodeStates == {"DEPLOYING", "CLEANING", "ACTIVE", "AVAILABLE"}

\* A hook of VirtmediaBoot (_attach_virtual_cd, _detach_virtual_cd,
\* _attach_virtual_fd, _detach_virtual_fd) returns, or raises
\* VirtmediaOperationError when the operation failed (docstrings, lines 415-446)
HookReplies == {"ok", "raise"}

\* everything but the position, the value and the state of the boot methods
BootFrame ==
    UNCHANGED <<op, hw, stub, idx, args, tries, conf, driveindex, poll, sent, stages,
                ctl, ctl0, failedAt, status, resets, infos, calls,
                provision_state, os_net_config>>

\* the boot method ends with value or exception v
BootDone(v) == pc' = "done" /\ result' = v

BootStep(l) == pc' = l /\ UNCHANGED result

\* one hook call; an exception of the hook leaves every caller
Hook(name, next) ==
    \E r \in HookReplies :
        /\ media' = Append(media, <<name, r>>)
        /\ IF r = "raise" THEN BootDone("VirtmediaOperationError") ELSE BootStep(next)

\* a prepare_ramdisk without the test of the provision state
PrepareCheckAnyState ==
    /\ pc = "pr_check"
    /\ BootStep("pr_params")
    /\ UNCHANGED <<ramdisk_params, boot_device, media>>
    /\ BootFrame

\* prepare_ramdisk, lines 262-264: nothing is done outside of deploy and clean
PrepareCheck ==
    /\ pc = "pr_check"
    /\ IF provision_state # "DEPLOYING" /\ provision_state # "CLEANING"
       THEN BootDone("None")
       ELSE BootStep("pr_params")
    /\ UNCHANGED <<ramdisk_params, boot_device, media>>
    /\ BootFrame

\* prepare_ramdisk, lines 266-272
PrepareParams ==
    /\ pc = "pr_params"
    /\ ramdisk_params' = ramdisk_params \cup {"BOOTIF"}
                           \cup (IF os_net_config # <<>> THEN {"os_net_config"} ELSE {})
    /\ BootStep("iso_href")
    /\ UNCHANGED <<boot_device, media>>
    /\ BootFrame

\* how virtmedia_deploy_iso is given: the name of a file on the share, or a
\* reference that images.fetch stages there, or fails to
HrefKinds == {"file", "fetched", "fetch_failed"}

\* _setup_deploy_iso, lines 351-361
SetupDeployIso ==
    /\ pc = "iso_href"
    /\ \E h \in HrefKinds :
          IF h = "file"
          THEN BootStep("vm_detach_cd") /\ UNCHANGED media
          ELSE /\ media' = Append(media, <<"images.fetch", IF h = "fetched" THEN "ok" ELSE "raise">>)
               /\ IF h = "fetched"
                  THEN BootStep("vm_detach_cd")
                  ELSE BootDone("ImageRefValidationFailed")
    /\ UNCHANGED <<ramdisk_params, boot_device>>
    /\ BootFrame

\* _setup_vmedia_for_boot, line 383
DetachCd ==
    /\ pc = "vm_detach_cd"
    /\ Hook("_detach_virtual_cd", "vm_detach_fd")
    /\ UNCHANGED <<ramdisk_params, boot_device>>
    /\ BootFrame

\* a _setup_vmedia_for_boot that attaches the CD before it looks at parameters
DetachFdThenCd ==
    /\ pc = "vm_detach_fd"
    /\ Hook("_detach_virtual_fd", "vm_attach_cd")
    /\ UNCHANGED <<ramdisk_params, boot_device>>
    /\ BootFrame

\* line 384, and "if parameters:" of line 387
DetachFd ==
    /\ pc = "vm_detach_fd"
    /\ Hook("_detach_virtual_fd", IF ramdisk_params # {} THEN "vm_floppy" ELSE "vm_attach_cd")
    /\ UNCHANGED <<ramdisk_params, boot_device>>
    /\ BootFrame

\* line 388: _prepare_floppy_image returns the name of the image or raises
PrepareFloppy ==
    /\ pc = "vm_floppy"
    /\ \E r \in HookReplies :
          /\ media' = Append(media, <<"_prepare_floppy_image", r>>)
          /\ IF r = "raise" THEN BootDone("ImageCreationFailed") ELSE BootStep("vm_attach_fd")
    /\ UNCHANGED <<ramdisk_params, boot_device>>
    /\ BootFrame

\* line 389
AttachFd ==
    /\ pc = "vm_attach_fd"
    /\ Hook("_attach_virtual_fd", "vm_append")
    /\ UNCHANGED <<ramdisk_params, boot_device>>
    /\ BootFrame

\* lines 391-392: the name of the floppy image is not empty
AppendFloppy ==
    /\ pc = "vm_append"
    /\ media' = Append(media, <<"_append_floppy_to_cd", "ok">>)
    /\ BootStep("vm_attach_cd")
    /\ UNCHANGED <<ramdisk_params, boot_device>>
    /\ BootFrame

\* where _setup_vmedia_for_boot returns to
AfterSetupVmedia == IF op = "_setup_vmedia_for_boot" THEN "vm_return" ELSE "set_boot"

\* a _setup_vmedia_for_boot that drops the exception of _attach_virtual_cd
AttachCdDropsError ==
    /\ pc = "vm_attach_cd"
    /\ \E r \in HookReplies :
          /\ media' = Append(media, <<"_attach_virtual_cd", r>>)
          /\ BootStep(AfterSetupVmedia)
    /\ UNCHANGED <<ramdisk_params, boot_device>>
    /\ BootFrame

\* line 394
AttachCd ==
    /\ pc = "vm_attach_cd"
    /\ Hook("_attach_virtual_cd", AfterSetupVmedia)
    /\ UNCHANGED <<ramdisk_params, boot_device>>
    /\ BootFrame

\* _setup_vmedia_for_boot called on its own returns nothing
VmediaReturn ==
    /\ pc = "vm_return"
    /\ BootDone("None")
    /\ UNCHANGED <<ramdisk_params, boot_device, media>>
    /\ BootFrame

\* _setup_deploy_iso, line 364: _set_deploy_boot_device
SetDeployBootDevice ==
    /\ pc = "set_boot"
    /\ boot_device' = "CDROM"
    /\ BootDone("None")
    /\ UNCHANGED <<ramdisk_params, media>>
    /\ BootFrame

-----------------------------------------------------------------------------
(* The caller *)

\* the node and the parameters a boot method is called with
NoBootInputs == [state |-> "none", net |-> <<>>, params |-> {}]
BootInputs(o) ==
    IF o = "prepare_ramdisk"
    THEN [state : NodeStates, net : {<<>>, <<"cfg">>}, params : {{}, {"ipa-api-url"}}]
    ELSE IF o \in BootMethods
    THEN [state : {"DEPLOYING"}, net : {<<>>}, params : {{}, {"ipa-api-url"}}]
    ELSE {NoBootInputs}

\* the boot methods do not reach the Transport
StubChoices(o) == IF o \in BootMethods THEN {Chaos} ELSE Stubs

\* arguments a caller may pass to a primitive called on its own
ArgChoices(o) ==
    IF o = "_toggle_virtual_device" THEN {ToggleArgs(TRUE), ToggleArgs(FALSE)}
    ELSE IF o = "_set_virtual_media_device_count"
    THEN {CountArgs(t, c) : t \in {"CD", "HD", "FD", "XX"}, c \in -1 .. MaxDeviceCount}
    ELSE IF o = "_get_virtual_media_device_count"
    THEN {CountArgs(t, 0) : t \in {"CD", "HD", "FD", "XX"}}
    ELSE {NoArgs}

\* FALCON is the class of src/; the base class is reached through
\* check_and_wait_for_cd_mounting of any other subclass
HwChoices(o) ==
    IF o = "check_and_wait_for_cd_mounting" THEN {"FALCON", "BASE"} ELSE {"FALCON"}

Call ==
    /\ pc = "idle"
    /\ calls < MaxCalls
    /\ \E o \in Orchestrated \cup Primitives \cup BootMethods :
       \E a \in ArgChoices(o) :
       \E h \in HwChoices(o) :
       \E s \in StubChoices(o) :
       \E b \in BootInputs(o) :
          /\ provision_state' = b.state
          /\ os_net_config' = b.net
          /\ ramdisk_params' = b.params
          /\ op' = o
          /\ hw' = h
          /\ stub' = s
          /\ idx' = 1
          /\ args' = Program(o, a)[1].args
          /\ pc' = Entry(Program(o, a)[1].prim)
    /\ result' = "none"
    /\ poll' = ZeroPoll
    /\ sent' = <<>>
    /\ stages' = <<>>
    /\ ctl0' = ctl
    /\ failedAt' = 0
    /\ status' = "none"
    /\ resets' = 0
    /\ infos' = 0
    /\ calls' = calls + 1
    /\ boot_device' = "none"
    /\ media' = <<>>
    /\ UNCHANGED <<tries, conf, driveindex, ctl>>

\* the call has returned; the caller may call again
Finish ==
    /\ pc = "done"
    /\ pc' = "idle"
    /\ op' = "none"
    /\ hw' = "FALCON"
    /\ stub' = Chaos
    /\ idx' = 0
    /\ args' = NoArgs
    /\ result' = "none"
    /\ poll' = ZeroPoll
    /\ sent' = <<>>
    /\ stages' = <<>>
    /\ ctl0' = ctl
    /\ failedAt' = 0
    /\ status' = "none"
    /\ resets' = 0
    /\ infos' = 0
    /\ provision_state' = "none"
    /\ os_net_config' = <<>>
    /\ ramdisk_params' = {}
    /\ boot_device' = "none"
    /\ media' = <<>>
    /\ UNCHANGED <<tries, conf, driveindex, ctl, calls>>

Init ==
    /\ op = "none"
    /\ hw = "FALCON"
    /\ stub = Chaos
    /\ pc = "idle"
    /\ idx = 0
    /\ args = NoArgs
    /\ result = "none"
    /\ tries = 0
    /\ conf = <<>>
    /\ driveindex = <<>>
    /\ poll = ZeroPoll
    /\ sent = <<>>
    /\ stages = <<>>
    /\ ctl \in {EmptyCtl, DefaultCtl}
    /\ ctl0 = ctl
    /\ failedAt = 0
    /\ status = "none"
    /\ resets = 0
    /\ infos = 0
    /\ calls = 0
    /\ provision_state = "none"
    /\ os_net_config = <<>>
    /\ ramdisk_params = {}
    /\ boot_device = "none"
    /\ media = <<>>

Next ==
    \/ Call
    \/ Finish
    \/ EnableCheck
    \/ EnableStart
    \/ EnableRestart
    \/ EnablePoll
    \/ ToggleSet
    \/ TogglePoll
    \/ ClearRis
    \/ RestartRis
    \/ RestartRisCd
    \/ SetImageName
    \/ NfsType
    \/ NfsIp
    \/ NfsProgressClear
    \/ NfsProgressSet
    \/ NfsPath
    \/ NfsLast
    \/ MountCountBegin
    \/ MountCountPoll
    \/ CountRead
    \/ CountSet
    \/ CountGet
    \/ CountPoll
    \/ StopCount
    \/ StopSlot
    \/ CdCheck
    \/ CdWait
    \/ ResetCold
    \/ ResetInfo
    \/ PrepareCheck
    \/ PrepareParams
    \/ SetupDeployIso
    \/ DetachCd
    \/ DetachFd
    \/ PrepareFloppy
    \/ AttachFd
    \/ AppendFloppy
    \/ AttachCd
    \/ VmediaReturn
    \/ SetDeployBootDevice

Spec == Init /\ [][Next]_vars

\* the steps of a call that is running: everything but the caller's own steps
Running ==
    \/ EnableCheck
    \/ EnableStart
    \/ EnableRestart
    \/ EnablePoll
    \/ ToggleSet
    \/ TogglePoll
    \/ ClearRis
    \/ RestartRis
    \/ RestartRisCd
    \/ SetImageName
    \/ NfsType
    \/ NfsIp
    \/ NfsProgressClear
    \/ NfsProgressSet
    \/ NfsPath
    \/ NfsLast
    \/ MountCountBegin
    \/ MountCountPoll
    \/ CountRead
    \/ CountSet
    \/ CountGet
    \/ CountPoll
    \/ StopCount
    \/ StopSlot
    \/ CdCheck
    \/ CdWait
    \/ ResetCold
    \/ ResetInfo
    \/ PrepareCheck
    \/ PrepareParams
    \/ SetupDeployIso
    \/ DetachCd
    \/ DetachFd
    \/ PrepareFloppy
    \/ AttachFd
    \/ AppendFloppy
    \/ AttachCd
    \/ VmediaReturn
    \/ SetDeployBootDevice

\* the first call of a behaviour
FirstCall == calls = 0 /\ Call

LiveNext ==
    \/ FirstCall
    \/ Finish
    \/ Running

\* One call, followed to its end.  The methods are synchronous and run in the
\* caller's thread: every command handed to the Transport returns or raises
\* and every time.sleep returns, so a call that can take a step takes one.
\* Nothing obliges the caller to make a call.
LiveSpec == Init /\ [][LiveNext]_vars /\ WF_vars(Running)

-----------------------------------------------------------------------------
(* The claims *)

IsPrefix(s, t) == Len(s) <= Len(t) /\ SubSeq(t, 1, Len(s)) = s

\* the order of the command categories of an attach (section 4.4)
AttachOrder ==
    << "enable_media_service", "enable_cd_device", "clear_ris_config", "network_share",
       "restart_ris_cd", "wait_for_image", "set_image_name", "disk_status" >>

\* the order of the command categories of a detach (section 4.4)
DetachOrder ==
    << "enable_media_service", "restart_ris", "stop_redirection", "clear_ris_config",
       "disable_cd_device", "hd_slot_count", "cd_slot_count" >>

Finished(o) == op = o /\ pc = "done"

C2_AbortOnFailure ==
    (op \in Orchestrated /\ failedAt # 0) =>
        /\ pc = "done"
        /\ result = "False"
        /\ idx = failedAt
        /\ Len(stages) <= failedAt

\* the poll budget of the first primitive of an attach ran out
C2_Witness ==
    /\ Finished("attach_virtual_cd")
    /\ failedAt = 1
    /\ result = "False"
    /\ poll.sleeps = EnableTries

\* C3: on a Transport on which every command succeeds and every status read
\* reports its target value, attach_virtual_cd returns success.
C3_AttachSucceeds ==
    (Finished("attach_virtual_cd") /\ stub = Scripted(1)) => result = "True"

C5_DetachIdempotent ==
    (Finished("detach_virtual_cd") /\ stub = Scripted(1) /\ ctl0 = EmptyCtl) =>
        (result = "True" /\ ctl = EmptyCtl)

\* C6: when the last disk-attachment status read of check_and_wait_for_cd_mounting
\* was the error status, the call has raised the NFS-failure error (and so has
\* not returned success).
C6_ErrorStatusRaises ==
    ( /\ op \in {"attach_virtual_cd", "check_and_wait_for_cd_mounting"}
      /\ pc = "done"
      /\ status = "nfserror" ) => result = "InstanceDeployFailure"

\* C7: _set_virtual_media_device_count returns success only if its last
\* read-back reported the requested count.
C7_CountConfirmed ==
    (Finished("_set_virtual_media_device_count") /\ result = "True") =>
        (poll.gets >= 1 /\ poll.last = "match")

ValidCountArgs == args.devicetype \in {"CD", "HD"} /\ args.devicecount \in 0 .. MaxSlots

\* C8: on a Transport that never reports the requested slot count,
\* _set_virtual_media_device_count returns failure after exactly 40 read-backs.
C8_CountBudget ==
    ( /\ Finished("_set_virtual_media_device_count")
      /\ ValidCountArgs
      /\ stub = Scripted(Never) ) =>
        (result = "False" /\ poll.gets = SlotCountTries)

\* C9: on a Transport that never reports the target value, each of
\* _toggle_virtual_device, _enable_virtual_media and _wait_for_mount_count
\* returns failure after exactly 60 polling reads.
C9_PollBudget ==
    ( /\ op \in {"_toggle_virtual_device", "_enable_virtual_media", "_wait_for_mount_count"}
      /\ pc = "done"
      /\ stub = Scripted(Never) ) =>
        (result = "False" /\ poll.gets = ToggleTries)

\* the attempt budget of a poll-until-confirmed primitive
Budget(o) ==
    CASE o = "_set_virtual_media_device_count" -> SlotCountTries
      [] o = "_toggle_virtual_device" -> ToggleTries
      [] o = "_enable_virtual_media" -> EnableTries
      [] o = "_wait_for_mount_count" -> MountCountTries

PollPrimitives ==
    { "_set_virtual_media_device_count", "_toggle_virtual_device",
      "_enable_virtual_media", "_wait_for_mount_count" }

\* C10: on a Transport that first reports the target value on get number N,
\* N within the budget, each poll-until-confirmed primitive returns success
\* after exactly N gets and at most N-1 sleeps.
C10_SuccessOnNthGet ==
    ( /\ op \in PollPrimitives
      /\ pc = "done"
      /\ op = "_set_virtual_media_device_count" => ValidCountArgs
      /\ stub.mode = "scripted"
      /\ stub.n <= Budget(op) ) =>
        (result = "True" /\ poll.gets = stub.n /\ poll.sleeps <= stub.n - 1)

\* C11: in _toggle_virtual_device and _set_virtual_media_device_count a polling
\* get on which the Transport raised counts as a mismatch: the primitive sleeps
\* and polls again, so it ends on such a get only when its budget is used up.
C11_GetErrorRetried ==
    ( /\ op \in {"_toggle_virtual_device", "_set_virtual_media_device_count"}
      /\ pc = "done"
      /\ poll.last = "error" ) =>
        (poll.gets >= Budget(op) /\ poll.sleeps >= Budget(op) - 1)

\* the command that begins a poll-until-confirmed primitive
SetCommands ==
    {"RAW_SET_VMEDIA_DEVICE_COUNT", "RAW_SET_VMEDIA_MOUNT_STATUS", "RAW_SET_VMEDIA_STATUS"}

\* the primitive has returned False on its first command, without a get or a sleep
FailedAtOnce ==
    /\ pc = "done"
    /\ result = "False"
    /\ Len(sent) = 1
    /\ poll.gets = 0
    /\ poll.sleeps = 0

\* C12 as stated: when the Transport raises on the set (enable) command of
\* _set_virtual_media_device_count, _toggle_virtual_device or
\* _enable_virtual_media, the primitive returns failure at once.
C12_SetFailureImmediate ==
    ( /\ op \in {"_set_virtual_media_device_count", "_toggle_virtual_device",
                  "_enable_virtual_media"}
      /\ poll.raised \in SetCommands ) => FailedAtOnce

\* C12 amended: _set_virtual_media_device_count and _toggle_virtual_device
\* return failure at once, without a polling get, when the Transport raises on
\* their set command; _enable_virtual_media does not: it logs the exception of
\* its enable command, sends the restart command and enters its poll loop.
C12_SetFailureAmended ==
    /\ ( /\ op \in {"_set_virtual_media_device_count", "_toggle_virtual_device"}
         /\ poll.raised \in SetCommands ) => FailedAtOnce
    /\ ( /\ Finished("_enable_virtual_media")
         /\ poll.raised = "RAW_SET_VMEDIA_STATUS" ) =>
            (Len(sent) >= 2 /\ sent[2][1] = "RAW_RESTART_VMEDIA" /\ poll.sleeps > 0)

\* the Transport raised on the set command of a _toggle_virtual_device
C12_Witness ==
    /\ Finished("_toggle_virtual_device")
    /\ poll.raised = "RAW_SET_VMEDIA_MOUNT_STATUS"
    /\ result = "False"

\* check_and_wait_for_cd_mounting of a hardware class whose status read answers
\* 'mounting' k times and 'mounted' from then on
PendingThenMounted(k) ==
    /\ op = "check_and_wait_for_cd_mounting"
    /\ hw = "BASE"
    /\ stub = Scripted(k + 1)

\* C13: when the disk-attachment status is 'mounting' for k polls in a row and
\* then 'mounted', k below the wait budget of 10, the disk-status stage of
\* attach returns success after k + 1 status reads and no cold reset is issued.
C13_PendingThenMounted ==
    \A k \in 1 .. CdWaitSleepCount - 1 :
        (PendingThenMounted(k) /\ pc = "done") =>
            /\ result = "True"
            /\ status = "mounted"
            /\ poll.gets = k + 1
            /\ resets = 0
            /\ infos = 0

\* the case k = 5 of the scenario
C13_Witness ==
    /\ PendingThenMounted(5)
    /\ pc = "done"
    /\ poll.gets = 6
    /\ poll.sleeps = 4
    /\ result = "True"

\* C14: when the disk-attachment status is 'mounting' on every poll and, after
\* the cold reset, no 'bmc info' is answered, the disk-status stage of attach
\* raises IPMIFailure: it returns neither success nor failure.
C14_NeverAlive ==
    ( /\ Finished("check_and_wait_for_cd_mounting")
      /\ hw = "BASE"
      /\ stub = Scripted(Never)
      /\ poll.last # "alive" ) =>
        /\ result = "IPMIFailure"
        /\ status = "mounting"
        /\ resets = 1

\* the wait budget ran out, the reset was sent and every 'bmc info' failed
C14_Witness ==
    /\ Finished("check_and_wait_for_cd_mounting")
    /\ hw = "BASE"
    /\ stub = Scripted(Never)
    /\ poll.last = "dead"
    /\ poll.gets = CdWaitSleepCount + 2
    /\ result = "IPMIFailure"

\* C15: in _issue_bmc_reset 'bmc info' is sent only after 'bmc reset cold' and
\* at most 10 times; no 'bmc info' follows one that was answered, and the
\* method then returns without an exception; when 10 of them have failed
\* IPMIFailure is raised, and not before.
C15_LivenessBudget ==
    /\ infos <= 10
    /\ (infos > 0 => resets = 1)
    /\ (pc = "reset_info" => poll.last # "alive")
    /\ (pc = "done" /\ poll.last = "alive" =>
            result = IF op = "_issue_bmc_reset" THEN "None" ELSE "False")
    /\ (pc = "done" /\ poll.last = "dead" => result = "IPMIFailure" /\ infos = 10)
    /\ (pc = "done" /\ result = "IPMIFailure" /\ poll.raised = "" => infos = 10)

\* the third 'bmc info' of an _issue_bmc_reset was answered
C15_Witness ==
    /\ Finished("_issue_bmc_reset")
    /\ result = "None"
    /\ infos = 3
    /\ poll.sleeps = 2

\* attach_virtual_cd, or its last stage called on its own, has ended
AttachEnded ==
    /\ op \in {"attach_virtual_cd", "check_and_wait_for_cd_mounting"}
    /\ pc = "done"

\* C16 as stated: attach raises only when the disk status read was the error
\* status or when no 'bmc info' was answered after the cold reset; a call in
\* which the Transport raised on a command returns without raising.
C16_RaisesOnlyTwo ==
    AttachEnded =>
        /\ result \in Raises =>
               \/ result = "InstanceDeployFailure" /\ status = "nfserror"
               \/ result = "IPMIFailure" /\ poll.last = "dead" /\ infos = 10
        /\ poll.raised # "" => result \notin Raises

\* C16 amended: attach raises only from its disk-status stage:
\* InstanceDeployFailure when the status read is the error status or a value
\* that is neither pending nor mounted, IPMIFailure when the cold-reset command
\* itself fails or when no 'bmc info' is answered after the cold reset that
\* follows the used-up wait budget.  Every failure of an earlier stage is
\* returned as False.
C16_RaisesAmended ==
    AttachEnded =>
        /\ result \in Raises =>
               /\ Program(op, args)[idx].prim = "check_and_wait_for_cd_mounting"
               /\ \/ /\ result = "InstanceDeployFailure"
                     /\ status \in {"nfserror", "unknown"}
                     /\ resets = 0
                  \/ /\ result = "IPMIFailure"
                     /\ poll.sleeps >= CdWaitSleepCount
                     /\ resets = 1
                     /\ \/ poll.raised = "bmc reset cold" /\ infos = 0
                        \/ poll.last = "dead" /\ infos = 10
        /\ (op = "attach_virtual_cd" /\ idx < Len(AttachSeq)) => result = "False"

\* the Transport raised on 'bmc reset cold' and the call raised IPMIFailure
C16_Witness ==
    /\ AttachEnded
    /\ result = "IPMIFailure"
    /\ poll.raised = "bmc reset cold"
    /\ infos = 0

\* the commands of configure_network_share, in the order of section 4.3
NfsCommands ==
    << <<"RAW_SET_RIS_NFS", 0>>, <<"RAW_SET_RIS_NFS_IP", 0>>,
       <<"RAW_SET_RIS_PROGRESS", 0>>, <<"RAW_SET_RIS_PROGRESS", 1>>,
       <<"RAW_SET_RIS_NFS_PATH", 0>>, <<"RAW_SET_RIS_PROGRESS", 0>> >>

PathStepCommands == {"RAW_SET_RIS_PROGRESS", "RAW_SET_RIS_NFS_PATH"}

\* C17: a _set_setup_nfs during which the Transport raised on one of its
\* commands (share type, server IP, progress flag, path) returns False.
C17_NfsFailureSurfaced ==
    (Finished("_set_setup_nfs") /\ poll.raised # "") => result = "False"

\* C18: on a Transport without errors _set_setup_nfs sends exactly: share type,
\* server IP, progress clear, progress set, path, progress clear; its last
\* command clears the progress flag.
C18_NfsCommandOrder ==
    (Finished("_set_setup_nfs") /\ stub.mode = "scripted") =>
        /\ sent = NfsCommands
        /\ sent[Len(sent)] = <<"RAW_SET_RIS_PROGRESS", 0>>

\* C19: when the Transport raises on the server-IP command, _set_setup_nfs
\* ends at once with False and has sent no progress-flag or path command; when
\* it raises on the share-type command, the server-IP command is not sent
\* either.
C19_NfsStopsAtFailure ==
    op = "_set_setup_nfs" =>
        /\ poll.raised = "RAW_SET_RIS_NFS_IP" =>
               /\ pc = "done"
               /\ result = "False"
               /\ sent = SubSeq(NfsCommands, 1, 2)
        /\ poll.raised = "RAW_SET_RIS_NFS" =>
               /\ pc = "done"
               /\ result = "False"
               /\ sent = SubSeq(NfsCommands, 1, 1)

\* the share type was accepted and the Transport raised on the server IP
C19_Witness ==
    /\ Finished("_set_setup_nfs")
    /\ poll.raised = "RAW_SET_RIS_NFS_IP"
    /\ Len(sent) = 2
    /\ \A i \in 1 .. Len(sent) : sent[i][1] \notin PathStepCommands

\* C20: when the service status read reports the media service as running,
\* _enable_virtual_media returns True at once and sends neither
\* RAW_SET_VMEDIA_STATUS nor RAW_RESTART_VMEDIA.
C20_EnableShortCircuit ==
    (Finished("_enable_virtual_media") /\ stub = Scripted(1)) =>
        /\ result = "True"
        /\ \A i \in 1 .. Len(sent) :
               sent[i][1] \notin {"RAW_SET_VMEDIA_STATUS", "RAW_RESTART_VMEDIA"}

\* C21: _stop_remote_redirection begins with index 0, and every turn of its
\* loop hands the stop command of its index to the Transport and, when an index
\* below the CD count remains, goes on to the next index, whether the command
\* was answered or not.
C21_StopEverySlot ==
    [][ /\ (pc = "stop_count" /\ pc' = "stop_slot") => driveindex' = <<0>>
        /\ pc = "stop_slot" =>
               /\ sent' = Append(sent, <<"RAW_STOP_REDIRECT", driveindex[1]>>)
               /\ driveindex[1] + 1 < conf[1] =>
                      (pc' = "stop_slot" /\ driveindex' = <<driveindex[1] + 1>>) ]_vars

\* C26: the stop-redirection step of detach_virtual_cd never ends the call: it
\* raises nothing, whatever the count read and the stop commands answered, so
\* that the step after it is entered.
C26_StopNeverAborts ==
    ( /\ op \in {"detach_virtual_cd", "_stop_remote_redirection"}
      /\ pc = "done"
      /\ Program(op, args)[idx].prim = "_stop_remote_redirection" ) =>
        result \notin Raises

\* C22 as stated: _wait_for_mount_count raises nothing and returns True only
\* after a read of two well-formed bytes whose count is above 0; a transport
\* error and every malformed or too short reply count as 0.
C22_ImageCountZero ==
    op = "_wait_for_mount_count" =>
        /\ result \notin Raises
        /\ (pc = "done" /\ result = "True") => poll.last = "match"

\* C22 amended: _get_mounted_image_count raises nothing; it returns 0 for a
\* transport error, for a reply of fewer than two bytes and for one whose
\* characters 3 and 4 are no hexadecimal number, but a reply cut after the
\* first digit of its second byte is read as that digit.  _wait_for_mount_count
\* returns True only after a read that parsed to a count above 0.
C22_ImageCountAmended ==
    op = "_wait_for_mount_count" =>
        /\ result \notin Raises
        /\ (pc = "done" /\ result = "True") => poll.last \in {"match", "halfbyte"}
        /\ (pc = "done" /\ result = "False") => poll.gets = MountCountTries
        /\ poll.last \in {"error", "short", "nonhex", "mismatch"} =>
               (result # "True" /\ poll.sleeps = poll.gets)

\* the first read did not parse to a count above 0, the second one did
C22_Witness ==
    /\ Finished("_wait_for_mount_count")
    /\ stub = Chaos
    /\ result = "True"
    /\ poll.last = "match"
    /\ poll.gets = 2

\* C23: a _set_virtual_media_device_count whose count is outside 0..4 or whose
\* device type is neither CD nor HD hands no command to the Transport and
\* returns False; a _get_virtual_media_device_count of an unknown device type
\* hands no command to the Transport.
C23_RejectsWithoutSend ==
    /\ (op = "_set_virtual_media_device_count" /\ ~ValidCountArgs) =>
           /\ sent = <<>>
           /\ pc = "done" => result = "False"
    /\ ( /\ op = "_get_virtual_media_device_count"
         /\ args.devicetype \notin {"CD", "FD", "HD"} ) => sent = <<>>

\* a floppy count was asked for and refused
C23_Witness ==
    /\ Finished("_set_virtual_media_device_count")
    /\ args.devicetype = "FD"
    /\ args.devicecount = 1
    /\ sent = <<>>
    /\ result = "False"

\* C24: in prepare_ramdisk and _setup_deploy_iso the boot device is set only
\* after _attach_virtual_cd, the last media operation, has returned; when the
\* attach failed the boot device is not set.
C24_BootDeviceAfterAttach ==
    op \in {"prepare_ramdisk", "_setup_deploy_iso"} =>
        /\ boot_device # "none" =>
               /\ media # <<>>
               /\ media[Len(media)] = <<"_attach_virtual_cd", "ok">>
               /\ boot_device = "CDROM"
        /\ (media # <<>> /\ media[Len(media)][2] = "raise") =>
               (boot_device = "none" /\ pc = "done" /\ result # "None")

\* the image was attached and the boot device set
C24_Witness ==
    /\ Finished("_setup_deploy_iso")
    /\ boot_device = "CDROM"
    /\ result = "None"
    /\ Len(media) = 6

\* C25: a prepare_ramdisk on a node whose provision state is neither DEPLOYING
\* nor CLEANING returns in one step, in which no media operation is made, the
\* boot device is not set, no command is sent and ramdisk_params stays as it
\* was.
C25_PrepareNoOp ==
    [][ ( /\ op = "prepare_ramdisk"
          /\ provision_state \notin {"DEPLOYING", "CLEANING"}
          /\ pc # "done" ) =>
            /\ UNCHANGED <<media, boot_device, ramdisk_params, sent, ctl>>
            /\ pc' = "done"
            /\ result' = "None" ]_vars

\* prepare_ramdisk has returned on an active node
C25_Witness ==
    /\ Finished("prepare_ramdisk")
    /\ provision_state = "ACTIVE"
    /\ ramdisk_params = {"ipa-api-url"}
    /\ media = <<>>
    /\ result = "None"

\* the media operations of _setup_vmedia_for_boot, without and with parameters
VmediaOrder ==
    IF ramdisk_params = {}
    THEN <<"_detach_virtual_cd", "_detach_virtual_fd", "_attach_virtual_cd">>
    ELSE <<"_detach_virtual_cd", "_detach_virtual_fd", "_prepare_floppy_image",
           "_attach_virtual_fd", "_append_floppy_to_cd", "_attach_virtual_cd">>

\* the media operations made so far, the staging of the ISO left out
MediaNames ==
    LET ops == SelectSeq(media, LAMBDA e : e[1] # "images.fetch")
    IN  [i \in 1 .. Len(ops) |-> ops[i][1]]

\* C27: the media operations of _setup_vmedia_for_boot come in this order:
\* detach CD, detach floppy, then with parameters prepare the floppy image,
\* attach the floppy (and append it to the CD image), and last attach the CD.
C27_VmediaOrder ==
    op \in BootMethods =>
        /\ IsPrefix(MediaNames, VmediaOrder)
        /\ (pc \in {"vm_return", "set_boot"} \/ boot_device # "none") =>
               MediaNames = VmediaOrder

\* _setup_vmedia_for_boot has run with parameters
C27_Witness ==
    /\ Finished("_setup_vmedia_for_boot")
    /\ ramdisk_params # {}
    /\ Len(media) = 6
    /\ media[6] = <<"_attach_virtual_cd", "ok">>

\* the disk-status stage of attach_virtual_cd, inside attach or on its own
DiskStage == op \in {"attach_virtual_cd", "check_and_wait_for_cd_mounting"}

\* C28: the cold reset is issued only when the last disk-attachment status
\* read was 'mounting': after a read of any other status no reset follows.
C28_ResetOnlyWhenPending ==
    (DiskStage /\ (pc = "reset_cold" \/ resets > 0)) => status = "mounting"

\* C29: when the status is 'mounting' through the whole wait budget and a
\* 'bmc info' is answered after the cold reset, the disk-status stage returns
\* False, and the status is not read again after the reset.
C29_FailureAfterReset ==
    ( /\ op = "check_and_wait_for_cd_mounting"
      /\ hw = "BASE"
      /\ stub = Scripted(Never) ) =>
        /\ (pc \in {"reset_cold", "reset_info"} \/ resets > 0) =>
               poll.gets = CdWaitSleepCount + 2
        /\ (pc = "done" /\ poll.last = "alive") => (result = "False" /\ resets = 1)

\* the second 'bmc info' after the reset was answered
C29_Witness ==
    /\ Finished("check_and_wait_for_cd_mounting")
    /\ hw = "BASE"
    /\ stub = Scripted(Never)
    /\ poll.last = "alive"
    /\ infos = 2
    /\ result = "False"

\* C30: on FALCON the disk-attachment status is 'mounted' or 'nfserror' and
\* never 'mounting', so the disk-status stage never waits and never issues a
\* cold reset or a liveness command, whatever the Transport answers.
C30_FalconNeverResets ==
    (DiskStage /\ hw = "FALCON") =>
        /\ status \in {"none", "mounted", "nfserror"}
        /\ pc \notin {"cd_wait", "reset_cold", "reset_info"}
        /\ resets = 0
        /\ infos = 0

\* the Transport raised on the status command of FALCON
C30_Witness ==
    /\ Finished("check_and_wait_for_cd_mounting")
    /\ hw = "FALCON"
    /\ status = "nfserror"
    /\ sent = << <<"RAW_CHECK_NFS_SERVICE_STATUS", 0>> >>
    /\ result = "InstanceDeployFailure"

-----------------------------------------------------------------------------
\* the call in progress is one of the hardware layer: attach_virtual_cd,
\* detach_virtual_cd, or one of their primitives called on its own
HardwareCallRunning ==
    op \in Orchestrated \cup Primitives /\ pc \notin {"idle", "done"}

\* C31: every call of attach_virtual_cd and detach_virtual_cd, and of each of
\* their primitives, ends: it returns success, returns failure or raises,
\* whatever the Transport answers to each command
C31_CallTerminates == HardwareCallRunning ~> (pc = "done")

\* attach_virtual_cd or detach_virtual_cd has ended after a poll loop used up
\* its whole budget of attempts
C31_Witness ==
    /\ op \in Orchestrated
    /\ pc = "done"
    /\ poll.sleeps = EnableTries
    /\ result = "False"
====
